---- MODULE Spec2Model ----
(***************************************************************************)
(* Capacity-safe reservation engine of the event manager backend:          *)
(* reservationController.ts (createReservation, cancelReservation),        *)
(* eventController.ts (createEvent, updateEvent, deleteEvent),             *)
(* userController.ts (deleteUser) over the relations of schema.prisma,     *)
(* with the read-through cache of eventController.ts (getEventById,        *)
(* listEvents) on the redis client of config/redis.ts.                     *)
(*                                                                         *)
(* Every handler is split at its awaits on the store: a step that reads    *)
(* sees the rows committed at that moment, and the writes of one           *)
(* prisma.$transaction callback are applied as one unit at commit.  The    *)
(* transactions are opened without an isolationLevel option on a           *)
(* postgresql datasource, so a read inside a transaction takes no lock and *)
(* a relative update (decrement/increment) applies to the row as committed *)
(* when the update runs, not as read earlier by findUnique.  The cache      *)
(* deletes that follow a commit and the response after them are taken with *)
(* the commit; the cache get, the store read and the cache setEx of a read *)
(* handler are steps of their own.                                         *)
(***************************************************************************)
EXTENDS Integers, FiniteSets, Sequences, TLC

\* ---- bounds of the model
MaxCapacity == 2
MaxOps == 3
MaxFaults == 1

\* ---- universes
EventIds == {"e1", "e2"}
UserIds == {"u1", "u2", "a1"}
Procs == {"p1", "p2"}
RidSet == 1..MaxOps

\* eventDate relative to the clock read by new Date(): "past" when
\* eventDate < new Date()
Dates == {"past", "future"}

\* a field absent from a request payload / a value not computed
undefined == -1

\* users, events, reservations: the three relations of the store
\* nextRid: the next fresh reservation id (uuid())
\* req: the calls in flight, one slot per overlapping request
\* resp: the response sent by the latest step (NoResponse when it sent none)
\* nops: the number of calls received
\* cache: the entries of the redis cache (event:<id> per event, events:list)
\* faults: the number of cache commands that may still throw
VARIABLES users, events, reservations, nextRid, req, resp, nops, cache, faults

vars == <<users, events, reservations, nextRid, req, resp, nops, cache, faults>>

\* ---- rows
NoEvent == [state |-> "unused", maxCapacity |-> 0, availableSpots |-> 0,
            eventDate |-> "future", creatorId |-> "none",
            location |-> "null", onlineLink |-> "null"]

GoneEvent == [NoEvent EXCEPT !.state = "deleted"]

\* the spots of a new event left at 0
NewEventNoSpots(maxCapacity, eventDate, creatorId) ==
    [state |-> "live", maxCapacity |-> maxCapacity, availableSpots |-> 0,
     eventDate |-> eventDate, creatorId |-> creatorId,
     location |-> "value", onlineLink |-> "null"]

NewEvent(maxCapacity, eventDate, creatorId) ==
    [state |-> "live", maxCapacity |-> maxCapacity, availableSpots |-> maxCapacity,
     eventDate |-> eventDate, creatorId |-> creatorId,
     location |-> "value", onlineLink |-> "null"]

NewReservation(id, eventId, userId) ==
    [id |-> id, eventId |-> eventId, userId |-> userId, status |-> "CONFIRMED"]

\* ---- cache entries
\* no value under a key
NoEntry == [present |-> FALSE, maxCapacity |-> 0, availableSpots |-> 0, ttl |-> 0]

\* JSON.stringify(event): the capacity fields of the row as cached
Snapshot(ev) ==
    IF ev.state = "live"
      THEN [present |-> TRUE, maxCapacity |-> ev.maxCapacity,
            availableSpots |-> ev.availableSpots, ttl |-> 0]
      ELSE NoEntry

NoList == [present |-> FALSE, rows |-> [e \in EventIds |-> NoEntry], ttl |-> 0]

\* JSON.stringify(events): the rows returned by findMany
ListSnapshot(evs) ==
    [present |-> TRUE, rows |-> [e \in EventIds |-> Snapshot(evs[e])], ttl |-> 0]

EmptyCache == [event |-> [e \in EventIds |-> NoEntry], list |-> NoList]

\* ---- a request slot: one in-flight call of a handler
IdleReq == [op |-> "none", pc |-> "idle", userId |-> "none", role |-> "none",
            eventId |-> "none", rid |-> 0, target |-> "none", newMax |-> undefined,
            newSpots |-> undefined, seenSpots |-> undefined,
            seenMax |-> undefined, seenList |-> NoList, racedWith |-> "none",
            evicted |-> 0, newLocation |-> "undefined", newLink |-> "undefined",
            filter |-> "none"]

NoResponse == [proc |-> "none", op |-> "none", userId |-> "none",
               eventId |-> "none", rid |-> 0, seenSpots |-> undefined,
               racedWith |-> "none", evicted |-> 0, filter |-> "none",
               result |-> "none"]

InFlight(p) == req[p].pc # "idle"

\* res.status(..).json(..): the response is sent and the slot is free again
Respond(p, r, result) ==
    /\ req' = [req EXCEPT ![p] = IdleReq]
    /\ resp' = [proc |-> p, op |-> r.op, userId |-> r.userId,
                eventId |-> r.eventId, rid |-> r.rid, seenSpots |-> r.seenSpots,
                racedWith |-> r.racedWith, evicted |-> r.evicted,
                filter |-> r.filter, result |-> result]

\* the handler suspends at its next await
Await(p, r) ==
    /\ req' = [req EXCEPT ![p] = r]
    /\ resp' = NoResponse

\* authenticate: the principal is looked up in the users relation
Authenticated(u) == users[u].exists

\* authorize(roles): the handler runs only for a principal with the role
Authorized(u, role) == Authenticated(u) /\ users[u].role = role

CanBegin(p) == ~InFlight(p) /\ nops < MaxOps

Call(op, u) == [IdleReq EXCEPT !.op = op, !.userId = u, !.role = users[u].role]

\* ---- store primitives (Prisma client on the postgresql datasource)
\* the index missing: no insert or update is refused
UniqueViolationNever(rows, row) == FALSE

\* the index on [eventId, userId] only: a second row of the pair is refused
\* whatever its status
UniqueViolationAnyStatus(rows, row) ==
    \E x \in rows : /\ x.id # row.id
                    /\ x.eventId = row.eventId
                    /\ x.userId = row.userId

\* @@unique([eventId, userId, status]) on Reservation
UniqueViolation(rows, row) ==
    \E x \in rows : /\ x.id # row.id
                    /\ x.eventId = row.eventId
                    /\ x.userId = row.userId
                    /\ x.status = row.status

\* data: { availableSpots: { decrement: 1 } }
Decrement(evs, e) == [evs EXCEPT ![e].availableSpots = @ - 1]

\* data: { availableSpots: { increment: 1 } }
Increment(evs, e) == [evs EXCEPT ![e].availableSpots = @ + 1]

\* the writes of a callback that throws are kept
TxResultNoRollback(committed, before, after) == after

\* prisma.$transaction: the writes of the callback are kept when it returns
\* and undone when it throws
TxResult(committed, before, after) == IF committed THEN after ELSE before

\* the relation without onDelete: the rows of the event stay
CascadeEventNone(rows, e) == rows

\* onDelete: Cascade on Reservation.event and Reservation.user
CascadeEvent(rows, e) == {x \in rows : x.eventId # e}

CascadeUser(rows, u) == {x \in rows : x.userId # u}

ConfirmedOf(rows, e, u) ==
    {x \in rows : x.eventId = e /\ x.userId = u /\ x.status = "CONFIRMED"}

\* event.eventDate < new Date()
HasOccurred(ev) == ev.eventDate = "past"

\* ---- cache primitives (redis client)
\* redisClient.del(`event:${id}`)
DelEvent(c, e) == [c EXCEPT !.event[e] = NoEntry]

\* redisClient.del('events:list')
DelList(c) == [c EXCEPT !.list = NoList]

\* the seconds after which an entry written by setEx expires
CacheTtl == 3600

\* a plain set: the entry has no expiry
SetPersist(entry, seconds) == entry

\* redisClient.setEx(key, seconds, value)
SetEx(entry, seconds) == [entry EXCEPT !.ttl = seconds]

\* the server drops an entry whose time to live has run out
ExpireEvent(e) ==
    /\ cache.event[e].present
    /\ cache.event[e].ttl > 0
    /\ cache' = DelEvent(cache, e)
    /\ resp' = NoResponse
    /\ UNCHANGED <<users, events, reservations, nextRid, req, nops, faults>>

ExpireList ==
    /\ cache.list.present
    /\ cache.list.ttl > 0
    /\ cache' = DelList(cache)
    /\ resp' = NoResponse
    /\ UNCHANGED <<users, events, reservations, nextRid, req, nops, faults>>

\* the number of entries present in c and absent from d
Evicted(c, d) ==
    Cardinality({e \in EventIds : c.event[e].present /\ ~d.event[e].present})
      + (IF c.list.present /\ ~d.list.present THEN 1 ELSE 0)

\* the list key is left alone
InvalidatedEventOnly(c, e, dels) == IF dels >= 1 THEN DelEvent(c, e) ELSE c

\* the cache after the first dels of the two deletes that follow a commit:
\* the key of the event, then the list key
Invalidated(c, e, dels) ==
    IF dels = 0 THEN c
    ELSE IF dels = 1 THEN DelEvent(c, e)
    ELSE DelList(DelEvent(c, e))

\* a cache command throws only while faults are left
MayThrow == faults > 0

\* the two deletes after a commit and the response: a delete that throws
\* is caught by the handler's catch, which answers 500
Invalidate(p, r, e) ==
    \E dels \in 0..2 :
        /\ dels < 2 => MayThrow
        /\ cache' = Invalidated(cache, e, dels)
        /\ faults' = IF dels < 2 THEN faults - 1 ELSE faults
        /\ Respond(p, [r EXCEPT !.evicted = Evicted(cache, cache')],
                   IF dels = 2 THEN "ok" ELSE "CacheError")

\* createEvent: the delete of the list key and the response
InvalidateList(p, r) ==
    \E dels \in 0..1 :
        /\ dels < 1 => MayThrow
        /\ cache' = IF dels = 1 THEN DelList(cache) ELSE cache
        /\ faults' = IF dels < 1 THEN faults - 1 ELSE faults
        /\ Respond(p, [r EXCEPT !.evicted = Evicted(cache, cache')],
                   IF dels = 1 THEN "ok" ELSE "CacheError")

\* ---- createReservation
\* the capacity check as availableSpots < 0
ReserveRejectionBelowZero(role, ev) ==
    IF role # "USER" THEN "Forbidden"
    ELSE IF ev.state # "live" THEN "EventNotFound"
    ELSE IF ev.eventDate = "past" THEN "EventAlreadyOccurred"
    ELSE IF ev.availableSpots < 0 THEN "CapacityExhausted"
    ELSE "none"

\* the capacity check before the date check
ReserveRejectionCapacityFirst(role, ev) ==
    IF role # "USER" THEN "Forbidden"
    ELSE IF ev.state # "live" THEN "EventNotFound"
    ELSE IF ev.availableSpots <= 0 THEN "CapacityExhausted"
    ELSE IF ev.eventDate = "past" THEN "EventAlreadyOccurred"
    ELSE "none"

\* the checks before the reservation lookup, in the order of the handler:
\* role (step 2), event found, event date, capacity (steps 3.1-3.2)
ReserveRejection(role, ev) ==
    IF role # "USER" THEN "Forbidden"
    ELSE IF ev.state # "live" THEN "EventNotFound"
    ELSE IF HasOccurred(ev) THEN "EventAlreadyOccurred"
    ELSE IF ev.availableSpots <= 0 THEN "CapacityExhausted"
    ELSE "none"

\* steps 2-3.2: role check, findUnique on the event, date and capacity checks
reserveFindEvent(p, u, e) ==
    /\ CanBegin(p)
    /\ Authenticated(u)
    /\ nops' = nops + 1
    /\ LET ev == events[e]
           call == [Call("reserve", u) EXCEPT
                      !.eventId = e,
                      !.seenSpots = IF ev.state = "live" THEN ev.availableSpots
                                                         ELSE undefined]
           rejection == ReserveRejection(call.role, ev)
           rivals == {q \in Procs \ {p} : req[q].op = "reserve" /\ req[q].eventId = e}
           mine == IF rivals = {} THEN "none" ELSE CHOOSE q \in rivals : TRUE
       IN  IF rejection # "none"
             THEN Respond(p, call, rejection)
             ELSE /\ req' = [q \in Procs |->
                               IF q = p
                                 THEN [call EXCEPT !.pc = "findFirst", !.racedWith = mine]
                               ELSE IF q \in rivals
                                 THEN [req[q] EXCEPT !.racedWith = p]
                               ELSE req[q]]
                  /\ resp' = NoResponse
    /\ UNCHANGED <<users, events, reservations, nextRid, cache, faults>>

\* step 3.3: findFirst on a CONFIRMED reservation of this user for the event
reserveFindFirst(p) ==
    /\ req[p].op = "reserve"
    /\ req[p].pc = "findFirst"
    /\ IF ConfirmedOf(reservations, req[p].eventId, req[p].userId) # {}
         THEN Respond(p, req[p], "AlreadyReserved")
         ELSE Await(p, [req[p] EXCEPT !.pc = "write"])
    /\ UNCHANGED <<users, events, reservations, nextRid, nops, cache, faults>>

\* steps 3.4-3.5 and the commit: event.update (decrement), reservation.create
reserveWrite(p) ==
    /\ req[p].op = "reserve"
    /\ req[p].pc = "write"
    /\ LET e == req[p].eventId
           u == req[p].userId
           row == NewReservation(nextRid, e, u)
           updated == events[e].state = "live"
           evs1 == IF updated THEN Decrement(events, e) ELSE events
           created == /\ updated
                      /\ users[u].exists
                      /\ ~UniqueViolation(reservations, row)
           rows1 == IF created THEN reservations \cup {row} ELSE reservations
       IN  /\ events' = TxResult(created, events, evs1)
           /\ reservations' = TxResult(created, reservations, rows1)
           /\ nextRid' = IF created THEN nextRid + 1 ELSE nextRid
           /\ IF created
                THEN Invalidate(p, [req[p] EXCEPT !.rid = row.id], e)
                ELSE /\ Respond(p, req[p], "StoreError")
                     /\ UNCHANGED <<cache, faults>>
    /\ UNCHANGED <<users, nops>>

\* the status code of the response of createReservation and
\* cancelReservation: 201/200 on success, 403 for the role check made before
\* the transaction, and the catch's 500 for every Error thrown inside the
\* transaction or by the store or the cache
HttpStatus(op, result) ==
    IF result = "ok" THEN (IF op = "reserve" THEN 201 ELSE 200)
    ELSE IF op = "reserve" /\ result = "Forbidden" THEN 403
    ELSE 500

\* ---- cancelReservation
\* the status of the row is not looked at
CancelRejectionNoStatus(role, u, found) ==
    IF found = {} THEN "ReservationNotFound"
    ELSE IF role = "USER" /\ (CHOOSE x \in found : TRUE).userId # u THEN "NotAuthorized"
    ELSE "none"

\* the requester is not compared with the owner of the row
CancelRejectionNoOwner(role, u, found) ==
    IF found = {} THEN "ReservationNotFound"
    ELSE IF (CHOOSE x \in found : TRUE).status = "CANCELED" THEN "AlreadyCanceled"
    ELSE "none"

\* the checks on the row read by findUnique, in the order of the handler:
\* found (1.1), authorization (1.2), status (1.3)
CancelRejection(role, u, found) ==
    IF found = {} THEN "ReservationNotFound"
    ELSE LET existing == CHOOSE x \in found : TRUE
         IN  IF role = "USER" /\ existing.userId # u THEN "NotAuthorized"
             ELSE IF existing.status = "CANCELED" THEN "AlreadyCanceled"
             ELSE "none"

\* steps 1.1-1.3: findUnique on the reservation, authorization, status check
cancelFind(p, u, rid) ==
    /\ CanBegin(p)
    /\ Authenticated(u)
    /\ rid <= nextRid
    /\ nops' = nops + 1
    /\ LET found == {x \in reservations : x.id = rid}
           call == [Call("cancel", u) EXCEPT
                      !.rid = rid,
                      !.eventId = IF found = {} THEN "none"
                                  ELSE (CHOOSE x \in found : TRUE).eventId]
           rejection == CancelRejection(call.role, u, found)
       IN  IF rejection # "none"
             THEN Respond(p, call, rejection)
             ELSE Await(p, [call EXCEPT !.pc = "write"])
    /\ UNCHANGED <<users, events, reservations, nextRid, cache, faults>>

\* the status is flipped: a CANCELED row becomes CONFIRMED again
CanceledToggle(row) ==
    [row EXCEPT !.status = IF @ = "CONFIRMED" THEN "CANCELED" ELSE "CONFIRMED"]

\* data: { status: ReservationStatus.CANCELED }
Canceled(row) == [row EXCEPT !.status = "CANCELED"]

\* steps 1.4-1.5 and the commit: reservation.update (status), event.update
\* (increment)
cancelWrite(p) ==
    /\ req[p].op = "cancel"
    /\ req[p].pc = "write"
    /\ LET rid == req[p].rid
           e == req[p].eventId
           found == {x \in reservations : x.id = rid}
           old == CHOOSE x \in found : TRUE
           new == Canceled(old)
           flipped == found # {} /\ ~UniqueViolation(reservations, new)
           rows1 == IF flipped THEN (reservations \ {old}) \cup {new}
                               ELSE reservations
           incremented == flipped /\ events[e].state = "live"
           evs1 == IF incremented THEN Increment(events, e) ELSE events
       IN  /\ reservations' = TxResult(incremented, reservations, rows1)
           /\ events' = TxResult(incremented, events, evs1)
           /\ IF incremented
                THEN Invalidate(p, req[p], e)
                ELSE /\ Respond(p, req[p], "StoreError")
                     /\ UNCHANGED <<cache, faults>>
    /\ UNCHANGED <<users, nextRid, nops>>

\* ---- location and onlineLink
\* a payload field: absent, null, '', a string of blanks, or a proper value
\* (for onlineLink a URL)
PayloadVenues == {"undefined", "null", "empty", "space", "value"}

\* isNonEmptyString: a string with something left after trim()
isNonEmptyString(v) == v = "value"

\* z.string().url().nullable().optional()
ValidUrl(v) == v \in {"undefined", "null", "value"}

\* location ?? null
Stored(v) == IF v = "undefined" THEN "null" ELSE v

\* finalLocation / finalOnlineLink: a field of the payload, null when it is
\* null or blank after trim(), otherwise the field of the row read
FinalVenue(v, existing) ==
    IF v # "undefined"
      THEN (IF v \in {"null", "empty", "space"} THEN "null" ELSE "value")
      ELSE existing

\* hasFinalLocation / hasFinalOnlineLink: !== null && !== ''
hasFinal(v) == v \notin {"null", "empty"}

\* the refine of createEventSchema: exactly one of the two
CreateVenueOk(location, onlineLink) ==
    /\ ValidUrl(onlineLink)
    /\ isNonEmptyString(location) # isNonEmptyString(onlineLink)

\* the refine of updateEventSchema: not both in the payload
UpdateVenueOk(location, onlineLink) ==
    /\ ValidUrl(onlineLink)
    /\ ~(isNonEmptyString(location) /\ isNonEmptyString(onlineLink))

\* ---- createEvent
\* createEventSchema (maxCapacity: int, positive; one of location and
\* onlineLink), event.create with availableSpots: maxCapacity; the id is a
\* fresh uuid()
createEvent(p, u, e, maxCapacity, eventDate, location, onlineLink) ==
    /\ CanBegin(p)
    /\ Authorized(u, "ADMIN")
    /\ events[e].state = "unused"
    /\ nops' = nops + 1
    /\ LET call == Call("createEvent", u)
       IN  IF ~(maxCapacity > 0) \/ ~CreateVenueOk(location, onlineLink)
             THEN /\ Respond(p, call, "ValidationFailed")
                  /\ UNCHANGED <<events, cache, faults>>
             ELSE /\ events' =
                       [events EXCEPT
                          ![e] = [NewEvent(maxCapacity, eventDate, u) EXCEPT
                                    !.location = Stored(location),
                                    !.onlineLink = Stored(onlineLink)]]
                  /\ InvalidateList(p, [call EXCEPT !.eventId = e])
    /\ UNCHANGED <<users, reservations, nextRid>>

\* ---- updateEvent
Max(a, b) == IF a >= b THEN a ELSE b

\* the result is not clamped at 0
ResizeNoClamp(maxCapacity, existingMax, existingSpots) ==
    IF maxCapacity # existingMax
      THEN existingSpots + (maxCapacity - existingMax)
      ELSE existingSpots

\* the difference is taken as old minus new
ResizeSwapped(maxCapacity, existingMax, existingSpots) ==
    IF maxCapacity # existingMax
      THEN Max(0, existingSpots + (existingMax - maxCapacity))
      ELSE existingSpots

\* newAvailableSpots as computed from the row read by findUnique
Resize(maxCapacity, existingMax, existingSpots) ==
    IF maxCapacity # existingMax
      THEN Max(0, existingSpots + (maxCapacity - existingMax))
      ELSE existingSpots

\* steps 1-3: updateEventSchema, findUnique on the event, the check that the
\* event would keep exactly one of location and onlineLink, computation of
\* newAvailableSpots
updateFind(p, u, e, maxCapacity, location, onlineLink) ==
    /\ CanBegin(p)
    /\ Authorized(u, "ADMIN")
    /\ nops' = nops + 1
    /\ LET call == [Call("updateEvent", u) EXCEPT !.eventId = e]
           ev == events[e]
           finalLocation == FinalVenue(location, ev.location)
           finalOnlineLink == FinalVenue(onlineLink, ev.onlineLink)
       IN  IF \/ maxCapacity # undefined /\ ~(maxCapacity > 0)
              \/ ~UpdateVenueOk(location, onlineLink)
             THEN Respond(p, call, "ValidationFailed")
           ELSE IF ev.state # "live" THEN Respond(p, call, "EventNotFound")
           ELSE IF hasFinal(finalLocation) = hasFinal(finalOnlineLink)
             THEN Respond(p, call, "ValidationFailed")
           ELSE Await(p, [call EXCEPT !.pc = "write",
                                      !.newLocation =
                                         IF location # "undefined"
                                           THEN finalLocation ELSE "undefined",
                                      !.newLink =
                                         IF onlineLink # "undefined"
                                           THEN finalOnlineLink ELSE "undefined",
                                      !.seenSpots = ev.availableSpots,
                                      !.seenMax = ev.maxCapacity,
                                      !.newMax = maxCapacity,
                                      !.newSpots =
                                         IF maxCapacity # undefined
                                           THEN Resize(maxCapacity, ev.maxCapacity,
                                                       ev.availableSpots)
                                           ELSE undefined])
    /\ UNCHANGED <<users, events, reservations, nextRid, cache, faults>>

\* step 5: event.update with dataToUpdate (maxCapacity and availableSpots are
\* written as the values computed in updateFind; newAvailableSpots is defined
\* whenever maxCapacity is a number)
updateWrite(p) ==
    /\ req[p].op = "updateEvent"
    /\ req[p].pc = "write"
    /\ LET e == req[p].eventId
       IN  IF events[e].state # "live"
             THEN /\ Respond(p, req[p], "StoreError")
                  /\ UNCHANGED <<events, cache, faults>>
             ELSE /\ events' =
                       [events EXCEPT
                          ![e].maxCapacity =
                              IF req[p].newMax # undefined THEN req[p].newMax ELSE @,
                          ![e].availableSpots =
                              IF req[p].newMax # undefined THEN req[p].newSpots ELSE @,
                          ![e].location =
                              IF req[p].newLocation # "undefined"
                                THEN req[p].newLocation ELSE @,
                          ![e].onlineLink =
                              IF req[p].newLink # "undefined" THEN req[p].newLink ELSE @]
                  /\ Invalidate(p, req[p], e)
    /\ UNCHANGED <<users, reservations, nextRid, nops>>

\* ---- deleteEvent
\* steps 1-2: findUnique on the event
deleteFind(p, u, e) ==
    /\ CanBegin(p)
    /\ Authorized(u, "ADMIN")
    /\ nops' = nops + 1
    /\ LET call == [Call("deleteEvent", u) EXCEPT !.eventId = e]
       IN  IF events[e].state # "live"
             THEN Respond(p, call, "EventNotFound")
             ELSE Await(p, [call EXCEPT !.pc = "write"])
    /\ UNCHANGED <<users, events, reservations, nextRid, cache, faults>>

\* step 3: event.delete; the reservations of the event go with it
deleteWrite(p) ==
    /\ req[p].op = "deleteEvent"
    /\ req[p].pc = "write"
    /\ LET e == req[p].eventId
       IN  IF events[e].state # "live"
             THEN /\ Respond(p, req[p], "StoreError")
                  /\ UNCHANGED <<events, reservations, cache, faults>>
             ELSE /\ events' = [events EXCEPT ![e] = GoneEvent]
                  /\ reservations' = CascadeEvent(reservations, e)
                  /\ Invalidate(p, req[p], e)
    /\ UNCHANGED <<users, nextRid, nops>>

\* ---- deleteUser
\* findUnique on the user, self-delete check
deleteUserFind(p, u, target) ==
    /\ CanBegin(p)
    /\ Authorized(u, "ADMIN")
    /\ nops' = nops + 1
    /\ LET call == [Call("deleteUser", u) EXCEPT !.target = target]
       IN  IF ~users[target].exists THEN Respond(p, call, "UserNotFound")
           ELSE IF u = target THEN Respond(p, call, "SelfDelete")
           ELSE Await(p, [call EXCEPT !.pc = "write"])
    /\ UNCHANGED <<users, events, reservations, nextRid, cache, faults>>

\* user.delete: refused while an event references the user as creator (the
\* relation Event.creator has no onDelete), otherwise the reservations of the
\* user go with it
deleteUserWrite(p) ==
    /\ req[p].op = "deleteUser"
    /\ req[p].pc = "write"
    /\ LET t == req[p].target
           referenced == \E e \in EventIds :
                            events[e].state = "live" /\ events[e].creatorId = t
       IN  IF ~users[t].exists \/ referenced
             THEN /\ Respond(p, req[p], "StoreError")
                  /\ UNCHANGED <<users, reservations>>
             ELSE /\ users' = [users EXCEPT ![t].exists = FALSE]
                  /\ reservations' = CascadeUser(reservations, t)
                  /\ Respond(p, req[p], "ok")
    /\ UNCHANGED <<events, nextRid, nops, cache, faults>>

\* ---- updateUserProfile, with a payload that carries only the role
Roles == {"USER", "ADMIN"}

\* a USER may update only its own profile and its role field is ignored, so
\* nothing is left to update; an ADMIN may set the role of any user;
\* user.update throws when the row is gone
updateUserProfile(p, u, target, role) ==
    /\ CanBegin(p)
    /\ Authenticated(u)
    /\ nops' = nops + 1
    /\ LET call == [Call("updateUserProfile", u) EXCEPT !.target = target]
       IN  IF call.role = "USER" /\ target # u
             THEN /\ Respond(p, call, "Forbidden")
                  /\ UNCHANGED users
           ELSE IF call.role # "ADMIN"
             THEN /\ Respond(p, call, "NothingToUpdate")
                  /\ UNCHANGED users
           ELSE IF role \notin Roles
             THEN /\ Respond(p, call, "ValidationFailed")
                  /\ UNCHANGED users
           ELSE IF ~users[target].exists
             THEN /\ Respond(p, call, "StoreError")
                  /\ UNCHANGED users
           ELSE /\ users' = [users EXCEPT ![target].role = role]
                /\ Respond(p, call, "ok")
    /\ UNCHANGED <<events, reservations, nextRid, cache, faults>>

\* ---- getEventById (public route)
\* step 1: redisClient.get on the key of the event; a hit is answered from
\* the cache, a throw by the handler's catch
getEventById(p, e) ==
    /\ CanBegin(p)
    /\ nops' = nops + 1
    /\ LET call == [IdleReq EXCEPT !.op = "getEventById", !.eventId = e]
           cached == cache.event[e]
       IN  \/ /\ MayThrow
              /\ faults' = faults - 1
              /\ Respond(p, call, "CacheError")
           \/ /\ faults' = faults
              /\ IF cached.present
                   THEN Respond(p, [call EXCEPT !.seenSpots = cached.availableSpots,
                                                !.seenMax = cached.maxCapacity], "ok")
                   ELSE Await(p, [call EXCEPT !.pc = "find"])
    /\ UNCHANGED <<users, events, reservations, nextRid, cache>>

\* step 2: findUnique on the event
getEventFind(p) ==
    /\ req[p].op = "getEventById"
    /\ req[p].pc = "find"
    /\ LET ev == events[req[p].eventId]
       IN  IF ev.state # "live"
             THEN Respond(p, req[p], "EventNotFound")
             ELSE Await(p, [req[p] EXCEPT !.pc = "set",
                                          !.seenSpots = ev.availableSpots,
                                          !.seenMax = ev.maxCapacity])
    /\ UNCHANGED <<users, events, reservations, nextRid, nops, cache, faults>>

\* step 3: redisClient.setEx with the row read in step 2, then the response
getEventSet(p) ==
    /\ req[p].op = "getEventById"
    /\ req[p].pc = "set"
    /\ \/ /\ MayThrow
          /\ faults' = faults - 1
          /\ Respond(p, req[p], "CacheError")
          /\ UNCHANGED cache
       \/ /\ faults' = faults
          /\ cache' = [cache EXCEPT
                          !.event[req[p].eventId] =
                              SetEx([present |-> TRUE,
                                     maxCapacity |-> req[p].seenMax,
                                     availableSpots |-> req[p].seenSpots,
                                     ttl |-> 0], CacheTtl)]
          /\ Respond(p, req[p], "ok")
    /\ UNCHANGED <<users, events, reservations, nextRid, nops>>

\* ---- listEvents (public route)
\* req.query: no filter, a name, a date, or a date that does not parse
Filters == {"none", "name", "date", "badDate"}

\* the cache is skipped only for a name filter
UsesCacheUnlessName(filter) == filter # "name"

\* !name && !date
UsesCache(filter) == filter = "none"

\* redisClient.get on the list key when there is no filter, then the where
\* clause: a date that does not parse is answered with 400
listEvents(p, filter) ==
    /\ CanBegin(p)
    /\ nops' = nops + 1
    /\ LET call == [IdleReq EXCEPT !.op = "listEvents", !.filter = filter]
           where == IF filter = "badDate"
                      THEN Respond(p, call, "ValidationFailed")
                      ELSE Await(p, [call EXCEPT !.pc = "find"])
       IN  IF UsesCache(filter)
             THEN \/ /\ MayThrow
                     /\ faults' = faults - 1
                     /\ Respond(p, call, "CacheError")
                  \/ /\ faults' = faults
                     /\ IF cache.list.present
                          THEN Respond(p, [call EXCEPT !.seenList = cache.list], "ok")
                          ELSE where
             ELSE /\ faults' = faults
                  /\ where
    /\ UNCHANGED <<users, events, reservations, nextRid, cache>>

\* event.findMany; with a filter the rows are the response
listFind(p) ==
    /\ req[p].op = "listEvents"
    /\ req[p].pc = "find"
    /\ LET r == [req[p] EXCEPT !.seenList = ListSnapshot(events)]
       IN  IF UsesCache(r.filter)
             THEN Await(p, [r EXCEPT !.pc = "set"])
             ELSE Respond(p, r, "ok")
    /\ UNCHANGED <<users, events, reservations, nextRid, nops, cache, faults>>

\* redisClient.setEx on the list key with the rows read, then the response
listSet(p) ==
    /\ req[p].op = "listEvents"
    /\ req[p].pc = "set"
    /\ \/ /\ MayThrow
          /\ faults' = faults - 1
          /\ Respond(p, req[p], "CacheError")
          /\ UNCHANGED cache
       \/ /\ faults' = faults
          /\ cache' = [cache EXCEPT !.list = SetEx(req[p].seenList, CacheTtl)]
          /\ Respond(p, req[p], "ok")
    /\ UNCHANGED <<users, events, reservations, nextRid, nops>>

\* ---- the clock read by new Date() passes the date of an event
Elapse(e) ==
    /\ events[e].state = "live"
    /\ events[e].eventDate = "future"
    /\ events' = [events EXCEPT ![e].eventDate = "past"]
    /\ resp' = NoResponse
    /\ UNCHANGED <<users, reservations, nextRid, req, nops, cache, faults>>

\* ---- initial state: the seeded principals and one event as created by
\* createEvent, no reservation
Init ==
    /\ users = [u \in UserIds |->
                  [exists |-> TRUE, role |-> IF u = "a1" THEN "ADMIN" ELSE "USER"]]
    /\ \E m \in 1..MaxCapacity :
          events = [e \in EventIds |->
                      IF e = "e1" THEN NewEvent(m, "future", "a1") ELSE NoEvent]
    /\ reservations = {}
    /\ nextRid = 1
    /\ req = [p \in Procs |-> IdleReq]
    /\ resp = NoResponse
    /\ nops = 0
    /\ cache = EmptyCache
    /\ faults = 0

Step(p) ==
    \/ \E u \in UserIds, e \in EventIds : reserveFindEvent(p, u, e)
    \/ reserveFindFirst(p)
    \/ reserveWrite(p)
    \/ \E u \in UserIds, rid \in RidSet : cancelFind(p, u, rid)
    \/ cancelWrite(p)
    \/ \E u \in UserIds, e \in EventIds, m \in 0..MaxCapacity, d \in Dates :
          createEvent(p, u, e, m, d, "value", "undefined")
    \/ \E u \in UserIds, e \in EventIds, m \in {undefined} \cup (0..MaxCapacity) :
          updateFind(p, u, e, m, "undefined", "undefined")
    \/ updateWrite(p)
    \/ \E u \in UserIds, e \in EventIds : deleteFind(p, u, e)
    \/ deleteWrite(p)
    \/ \E u \in UserIds, t \in UserIds : deleteUserFind(p, u, t)
    \/ deleteUserWrite(p)

\* requests overlap at their awaits
Next == (\E p \in Procs : Step(p)) \/ (\E e \in EventIds : Elapse(e))

Spec == Init /\ [][Next]_vars

\* one request at a time: a request runs to its response before the next
\* one is received
NextSeq ==
    \/ \E p \in Procs : (\A q \in Procs \ {p} : ~InFlight(q)) /\ Step(p)
    \/ \E e \in EventIds : Elapse(e)

SpecSeq == Init /\ [][NextSeq]_vars

\* the same, starting after u1 has reserved a spot of e1 and cancelled it
InitRebook ==
    /\ users = [u \in UserIds |->
                  [exists |-> TRUE, role |-> IF u = "a1" THEN "ADMIN" ELSE "USER"]]
    /\ \E m \in 1..MaxCapacity :
          events = [e \in EventIds |->
                      IF e = "e1" THEN NewEvent(m, "future", "a1") ELSE NoEvent]
    /\ reservations = {[NewReservation(1, "e1", "u1") EXCEPT !.status = "CANCELED"]}
    /\ nextRid = 2
    /\ req = [p \in Procs |-> IdleReq]
    /\ resp = NoResponse
    /\ nops = 0
    /\ cache = EmptyCache
    /\ faults = 0

SpecRebook == InitRebook /\ [][NextSeq]_vars

\* one request at a time, starting from an event of capacity 10 with 8 spots
\* left and the CONFIRMED reservations of u1 and u2; the admin may ask for
\* capacity 3
InitShrink ==
    /\ users = [u \in UserIds |->
                  [exists |-> TRUE, role |-> IF u = "a1" THEN "ADMIN" ELSE "USER"]]
    /\ events = [e \in EventIds |->
                   IF e = "e1"
                     THEN [NewEvent(10, "future", "a1") EXCEPT !.availableSpots = 8]
                     ELSE NoEvent]
    /\ reservations = {NewReservation(1, "e1", "u1"), NewReservation(2, "e1", "u2")}
    /\ nextRid = 3
    /\ req = [p \in Procs |-> IdleReq]
    /\ resp = NoResponse
    /\ nops = 0
    /\ cache = EmptyCache
    /\ faults = 0

NextShrink ==
    \/ NextSeq
    \/ \E p \in Procs : /\ \A q \in Procs \ {p} : ~InFlight(q)
                         /\ updateFind(p, "a1", "e1", 3, "undefined", "undefined")

SpecShrink == InitShrink /\ [][NextShrink]_vars

\* the calls that read or invalidate the cache of event e1: reserve and
\* cancel by u1, updateEvent and deleteEvent by the admin, and the two reads
CacheStep(p) ==
    \/ reserveFindEvent(p, "u1", "e1")
    \/ reserveFindFirst(p)
    \/ reserveWrite(p)
    \/ \E rid \in RidSet : cancelFind(p, "u1", rid)
    \/ cancelWrite(p)
    \/ \E m \in 1..MaxCapacity :
          updateFind(p, "a1", "e1", m, "undefined", "undefined")
    \/ updateWrite(p)
    \/ deleteFind(p, "a1", "e1")
    \/ deleteWrite(p)
    \/ getEventById(p, "e1")
    \/ getEventFind(p)
    \/ getEventSet(p)
    \/ listEvents(p, "none")
    \/ listFind(p)
    \/ listSet(p)

NextCache == \E p \in Procs : CacheStep(p)

\* overlapping reads and mutations, the cache reachable
SpecCache == Init /\ [][NextCache]_vars

\* the same with cache commands that may throw
InitFault ==
    /\ users = [u \in UserIds |->
                  [exists |-> TRUE, role |-> IF u = "a1" THEN "ADMIN" ELSE "USER"]]
    /\ \E m \in 1..MaxCapacity :
          events = [e \in EventIds |->
                      IF e = "e1" THEN NewEvent(m, "future", "a1") ELSE NoEvent]
    /\ reservations = {}
    /\ nextRid = 1
    /\ req = [p \in Procs |-> IdleReq]
    /\ resp = NoResponse
    /\ nops = 0
    /\ cache = EmptyCache
    /\ faults = MaxFaults

SpecFault == InitFault /\ [][NextCache]_vars

\* the calls that set location and onlineLink: createEvent and updateEvent by
\* the admin, with every shape of the two payload fields
VenueStep(p) ==
    \/ \E e \in EventIds, location \in PayloadVenues, onlineLink \in PayloadVenues :
          createEvent(p, "a1", e, 1, "future", location, onlineLink)
    \/ \E e \in EventIds, location \in PayloadVenues, onlineLink \in PayloadVenues :
          updateFind(p, "a1", e, undefined, location, onlineLink)
    \/ updateWrite(p)

NextVenue == \E p \in Procs : VenueStep(p)

SpecVenue == Init /\ [][NextVenue]_vars

\* the same calls and the expiry of entries; an entry whose time has run out
\* is dropped sooner or later
NextExpiry ==
    \/ NextCache
    \/ \E e \in EventIds : ExpireEvent(e)
    \/ ExpireList

SpecExpiry ==
    /\ Init
    /\ [][NextExpiry]_vars
    /\ \A e \in EventIds : WF_vars(ExpireEvent(e))
    /\ WF_vars(ExpireList)

\* the same calls, createEvent, and listEvents with every shape of the query
FilterStep(p) ==
    \/ CacheStep(p)
    \/ createEvent(p, "a1", "e2", 1, "future", "value", "undefined")
    \/ \E filter \in Filters : listEvents(p, filter)

NextFilter == \E p \in Procs : FilterStep(p)

SpecFilter == Init /\ [][NextFilter]_vars

\* reserve and cancel by u1 and by the admin, and the role updates of the two
RoleStep(p) ==
    \/ \E u \in {"u1", "a1"} : reserveFindEvent(p, u, "e1")
    \/ reserveFindFirst(p)
    \/ reserveWrite(p)
    \/ \E u \in {"u1", "a1"}, rid \in RidSet : cancelFind(p, u, rid)
    \/ cancelWrite(p)
    \/ \E u \in {"u1", "a1"}, t \in {"u1", "a1"}, role \in Roles \cup {"OTHER"} :
          updateUserProfile(p, u, t, role)

NextRoles == \E p \in Procs : RoleStep(p)

SpecRoles == Init /\ [][NextRoles]_vars

\* one updateEvent at a time and no other call, starting from an event of
\* capacity MaxCapacity on which u1, or u1 and u2, may hold a CONFIRMED
\* reservation
InitResize ==
    /\ users = [u \in UserIds |->
                  [exists |-> TRUE, role |-> IF u = "a1" THEN "ADMIN" ELSE "USER"]]
    /\ \E held \in {{}, {1}, {1, 2}} :
          /\ Cardinality(held) <= MaxCapacity
          /\ events = [e \in EventIds |->
                         IF e = "e1"
                           THEN [NewEvent(MaxCapacity, "future", "a1") EXCEPT
                                   !.availableSpots = MaxCapacity - Cardinality(held)]
                           ELSE NoEvent]
          /\ reservations =
                {NewReservation(i, "e1", IF i = 1 THEN "u1" ELSE "u2") : i \in held}
          /\ nextRid = Cardinality(held) + 1
    /\ req = [p \in Procs |-> IdleReq]
    /\ resp = NoResponse
    /\ nops = 0
    /\ cache = EmptyCache
    /\ faults = 0

NextResize ==
    \E p \in Procs :
       /\ \A q \in Procs \ {p} : ~InFlight(q)
       /\ \/ \E m \in 0..(MaxCapacity + 1) :
                updateFind(p, "a1", "e1", m, "undefined", "undefined")
          \/ updateWrite(p)

SpecResize == InitResize /\ [][NextResize]_vars

\* ---- properties
LiveEvents == {e \in EventIds : events[e].state = "live"}

ConfirmedCount(e) ==
    Cardinality({x \in reservations : x.eventId = e /\ x.status = "CONFIRMED"})

RowsOf(rows, e, u) == {x \in rows : x.eventId = e /\ x.userId = u}

\* the operations that invalidate the two cache keys of an event
Invalidating == {"reserve", "cancel", "updateEvent", "deleteEvent"}

\* the operations that populate the cache
Reading == {"getEventById", "listEvents"}

Quiescent == \A p \in Procs : ~InFlight(p)

\* the entries of the cache agree with the store
CacheAgrees ==
    /\ \A e \in EventIds :
          cache.event[e].present
             => /\ events[e].state = "live"
                /\ cache.event[e].maxCapacity = events[e].maxCapacity
                /\ cache.event[e].availableSpots = events[e].availableSpots
    /\ cache.list.present => cache.list.rows = ListSnapshot(events).rows

\* the business-rule failures of reserve and cancel
Conflicts == {"CapacityExhausted", "AlreadyReserved", "AlreadyCanceled",
              "EventAlreadyOccurred"}

\* C1: after every committed operation, availableSpots of every event equals
\* its maxCapacity minus the number of its CONFIRMED reservations.
C1_LedgerMatchesConfirmed ==
    \A e \in LiveEvents :
        events[e].availableSpots = events[e].maxCapacity - ConfirmedCount(e)

\* C2: at every committed state, 0 <= availableSpots <= maxCapacity for every
\* event.
C2_SpotsWithinCapacity ==
    \A e \in LiveEvents :
        /\ 0 <= events[e].availableSpots
        /\ events[e].availableSpots <= events[e].maxCapacity

\* C3: two reserve calls of different users that both read availableSpots = 1
\* before either commits: once the first has committed a reservation, the
\* second ends in CapacityExhausted, leaving availableSpots at 0 and one
\* CONFIRMED reservation between the two users.
C3_LastSpotHasOneWinner ==
    [][\A p \in Procs :
          ( /\ req[p].op = "reserve"
            /\ req[p].pc = "write"
            /\ req[p].seenSpots = 1
            /\ req[p].racedWith # "none"
            /\ resp.proc = req[p].racedWith
            /\ resp.op = "reserve"
            /\ resp.result = "ok"
            /\ resp.racedWith = p
            /\ resp.seenSpots = 1
            /\ resp.eventId = req[p].eventId
            /\ resp.userId # req[p].userId
            /\ resp'.proc = p )
          => /\ resp'.result = "CapacityExhausted"
             /\ events'[req[p].eventId].availableSpots = 0
             /\ Cardinality(ConfirmedOf(reservations', req[p].eventId, req[p].userId)
                            \cup ConfirmedOf(reservations', req[p].eventId, resp.userId))
                  = 1
      ]_vars

\* C4: for every (event, user) pair at most one reservation row is CONFIRMED,
\* also when two reserve calls of the same user for the same event overlap.
C4_OneConfirmedPerPair ==
    \A e \in EventIds, u \in UserIds :
        Cardinality(ConfirmedOf(reservations, e, u)) <= 1

\* an overlapping second reserve of the same user was refused by the unique
\* index while the first one's reservation stands
C4_Witness ==
    /\ resp.op = "reserve"
    /\ resp.result = "StoreError"
    /\ resp.racedWith # "none"
    /\ users[resp.userId].exists
    /\ events[resp.eventId].state = "live"
    /\ Cardinality(ConfirmedOf(reservations, resp.eventId, resp.userId)) = 1

\* C5: a pair may accumulate several CANCELED rows: the cancel of a CONFIRMED
\* reservation succeeds (status CANCELED, availableSpots incremented) also
\* when the pair already has a CANCELED row from an earlier reserve/cancel.
C5_CancelSucceedsAfterRebook ==
    [][\A p \in Procs : \A x \in reservations :
          ( /\ req[p].op = "cancel"
            /\ req[p].pc = "write"
            /\ resp'.proc = p
            /\ x.id = req[p].rid
            /\ x.status = "CONFIRMED"
            /\ events[x.eventId].state = "live"
            /\ \E y \in RowsOf(reservations, x.eventId, x.userId) :
                  y.id # x.id /\ y.status = "CANCELED" )
          => /\ resp'.result = "ok"
             /\ [x EXCEPT !.status = "CANCELED"] \in reservations'
             /\ events'[x.eventId].availableSpots = events[x.eventId].availableSpots + 1
      ]_vars

\* C6: reserve, cancel, reserve by one user for one event: the reserve that
\* finds the pair with its single row CANCELED succeeds with a new
\* reservation id, leaving two rows for the pair, exactly one of them
\* CONFIRMED, and availableSpots one lower; the cancel before it had given the
\* spot of the first reserve back.
C6_RebookAfterCancel ==
    [][ /\ \A u \in UserIds, e \in EventIds :
              ( /\ resp'.op = "reserve"
                /\ resp'.userId = u
                /\ resp'.eventId = e
                /\ users[u].role = "USER"
                /\ events[e].state = "live"
                /\ ~HasOccurred(events[e])
                /\ events[e].availableSpots > 0
                /\ Cardinality(RowsOf(reservations, e, u)) = 1
                /\ \A x \in RowsOf(reservations, e, u) : x.status = "CANCELED" )
              => /\ resp'.result = "ok"
                 /\ resp'.rid \notin {x.id : x \in reservations}
                 /\ reservations' =
                       reservations \cup
                       {[id |-> resp'.rid, eventId |-> e, userId |-> u,
                         status |-> "CONFIRMED"]}
                 /\ Cardinality(RowsOf(reservations', e, u)) = 2
                 /\ Cardinality(ConfirmedOf(reservations', e, u)) = 1
                 /\ events'[e].availableSpots = events[e].availableSpots - 1
        /\ (resp'.op = "cancel" /\ resp'.result = "ok")
              => events'[resp'.eventId].availableSpots =
                    events[resp'.eventId].availableSpots + 1
      ]_vars

\* the third call has answered: two rows for the pair, the new one CONFIRMED,
\* availableSpots one below the capacity the event started with
C6_Witness ==
    /\ resp.op = "reserve"
    /\ resp.result = "ok"
    /\ Cardinality(RowsOf(reservations, resp.eventId, resp.userId)) = 2
    /\ \E x \in RowsOf(reservations, resp.eventId, resp.userId) :
          x.status = "CANCELED" /\ x.id # resp.rid
    /\ \E x \in RowsOf(reservations, resp.eventId, resp.userId) :
          x.status = "CONFIRMED" /\ x.id = resp.rid
    /\ events[resp.eventId].availableSpots = events[resp.eventId].maxCapacity - 1

\* C7: cancel called twice in a row on one reservation id by the same caller:
\* the first call moves the row from CONFIRMED to CANCELED and adds exactly 1
\* to availableSpots, the second fails with AlreadyCanceled and changes
\* nothing.
C7_SecondCancelIsRefused ==
    [][ /\ ( /\ resp.op = "cancel"
             /\ resp.result = "ok"
             /\ resp'.op = "cancel"
             /\ resp'.rid = resp.rid
             /\ resp'.userId = resp.userId )
           => /\ resp'.result = "AlreadyCanceled"
              /\ UNCHANGED <<users, events, reservations, nextRid>>
        /\ (resp'.op = "cancel" /\ resp'.result = "ok")
           => \E x \in reservations :
                 /\ x.id = resp'.rid
                 /\ x.status = "CONFIRMED"
                 /\ reservations' =
                       (reservations \ {x}) \cup {[x EXCEPT !.status = "CANCELED"]}
                 /\ events' = [events EXCEPT ![x.eventId].availableSpots = @ + 1]
      ]_vars

\* the second cancel was refused; the one increment brought the event back
\* to its capacity
C7_Witness ==
    /\ resp.op = "cancel"
    /\ resp.result = "AlreadyCanceled"
    /\ \E x \in reservations :
          /\ x.id = resp.rid
          /\ x.status = "CANCELED"
          /\ events[x.eventId].state = "live"
          /\ events[x.eventId].availableSpots = events[x.eventId].maxCapacity

\* C8: with no other call in flight, reserve on a live future event by a USER
\* without a CONFIRMED reservation for it fails with CapacityExhausted and
\* changes nothing when availableSpots <= 0, and otherwise succeeds, adding
\* one CONFIRMED row and lowering availableSpots by exactly 1.
C8_ReserveByCapacity ==
    [][\A u \in UserIds, e \in EventIds :
          ( /\ resp'.op = "reserve"
            /\ resp'.userId = u
            /\ resp'.eventId = e
            /\ users[u].role = "USER"
            /\ events[e].state = "live"
            /\ ~HasOccurred(events[e])
            /\ ConfirmedOf(reservations, e, u) = {} )
          => IF events[e].availableSpots <= 0
               THEN /\ resp'.result = "CapacityExhausted"
                    /\ UNCHANGED <<users, events, reservations, nextRid>>
               ELSE /\ resp'.result = "ok"
                    /\ reservations' =
                          reservations \cup
                          {[id |-> resp'.rid, eventId |-> e, userId |-> u,
                            status |-> "CONFIRMED"]}
                    /\ resp'.rid \notin {x.id : x \in reservations}
                    /\ events' = [events EXCEPT ![e].availableSpots = @ - 1]
      ]_vars

\* maxCapacity = 1: one user holds the spot, availableSpots is 0, and another
\* user has just been answered CapacityExhausted
C8_Witness ==
    /\ resp.op = "reserve"
    /\ resp.result = "CapacityExhausted"
    /\ events[resp.eventId].maxCapacity = 1
    /\ events[resp.eventId].availableSpots = 0
    /\ ConfirmedCount(resp.eventId) = 1
    /\ ConfirmedOf(reservations, resp.eventId, resp.userId) = {}

\* C9: a reserve by a user who holds a CONFIRMED reservation for the (live,
\* future) event fails with AlreadyReserved and changes nothing, whatever the
\* availableSpots of the event.
C9_ReentrantReserveIsAlreadyReserved ==
    [][\A u \in UserIds, e \in EventIds :
          ( /\ resp'.op = "reserve"
            /\ resp'.userId = u
            /\ resp'.eventId = e
            /\ users[u].role = "USER"
            /\ events[e].state = "live"
            /\ ~HasOccurred(events[e])
            /\ ConfirmedOf(reservations, e, u) # {} )
          => /\ resp'.result = "AlreadyReserved"
             /\ UNCHANGED <<events, reservations>>
      ]_vars

\* C10: a reserve or cancel call that ends in a failure leaves the events and
\* reservations relations as they were: neither its failing step nor any
\* step before its response changes a row.
C10_FailureChangesNothing ==
    [][ /\ (resp'.op \in {"reserve", "cancel"} /\ resp'.result # "ok")
           => UNCHANGED <<events, reservations>>
        /\ ( /\ resp' = NoResponse
             /\ \E p \in Procs :
                   req'[p] # req[p] /\ req'[p].op \in {"reserve", "cancel"} )
           => UNCHANGED <<events, reservations>>
      ]_vars

\* a reserve was refused by the store after its decrement had run (unique
\* index), and the ledger of the event still matches its reservations
C10_Witness ==
    /\ resp.op = "reserve"
    /\ resp.result = "StoreError"
    /\ users[resp.userId].exists
    /\ events[resp.eventId].state = "live"
    /\ events[resp.eventId].availableSpots =
          events[resp.eventId].maxCapacity - ConfirmedCount(resp.eventId)

\* C11: an updateEvent that changes maxCapacity overwrites no decrement or
\* increment committed since it read the event: when the clamp at 0 does not
\* trigger, its commit leaves availableSpots at the committed value plus
\* (newMaxCapacity - oldMaxCapacity).
C11_UpdateKeepsCommittedDeltas ==
    [][\A p \in Procs :
          LET e == req[p].eventId
              delta == req[p].newMax - req[p].seenMax
          IN  ( /\ req[p].op = "updateEvent"
                /\ req[p].pc = "write"
                /\ resp'.proc = p
                /\ resp'.result = "ok"
                /\ req[p].newMax # undefined
                /\ req[p].newMax # req[p].seenMax
                /\ events[e].maxCapacity = req[p].seenMax
                /\ req[p].seenSpots + delta >= 0
                /\ events[e].availableSpots + delta >= 0 )
              => events'[e].availableSpots = events[e].availableSpots + delta
      ]_vars

\* C12: with no other call in flight, an updateEvent with a new maxCapacity
\* sets maxCapacity to it and availableSpots to
\* max(0, availableSpots + (newMaxCapacity - maxCapacity)), and changes no
\* reservation, also when the new maxCapacity is below the number of
\* CONFIRMED reservations.
C12_UpdateResizes ==
    [][\A p \in Procs :
          LET e == req[p].eventId
          IN  ( /\ req[p].op = "updateEvent"
                /\ req[p].newMax # undefined
                /\ resp'.proc = p
                /\ resp'.result = "ok" )
              => /\ events'[e].maxCapacity = req[p].newMax
                 /\ events'[e].availableSpots =
                       Max(0, events[e].availableSpots
                                + (req[p].newMax - events[e].maxCapacity))
                 /\ reservations' = reservations
      ]_vars

\* the event was shrunk below its two CONFIRMED reservations: the clamp set
\* availableSpots to 0 and both reservations stand
C12_Witness ==
    /\ resp.op = "updateEvent"
    /\ resp.result = "ok"
    /\ events[resp.eventId].maxCapacity = 1
    /\ events[resp.eventId].availableSpots = 0
    /\ ConfirmedCount(resp.eventId) = 2

\* C13 (as stated): shrinking maxCapacity from 10 to 3 on an event with
\* availableSpots = 8 and 2 CONFIRMED reservations leaves availableSpots at 0
\* and cancels no reservation.
C13_ShrinkLeavesZero ==
    [][\A p \in Procs :
          ( /\ req[p].op = "updateEvent"
            /\ req[p].eventId = "e1"
            /\ req[p].newMax = 3
            /\ resp'.proc = p
            /\ resp'.result = "ok"
            /\ events["e1"].maxCapacity = 10
            /\ events["e1"].availableSpots = 8
            /\ ConfirmedCount("e1") = 2 )
          => /\ events'["e1"].availableSpots = 0
             /\ reservations' = reservations
      ]_vars

\* C13 (amended): the same shrink leaves availableSpots at
\* max(0, 8 + (3 - 10)) = 1, maxCapacity at 3, and cancels no reservation.
C13_ShrinkLeavesOne ==
    [][\A p \in Procs :
          ( /\ req[p].op = "updateEvent"
            /\ req[p].eventId = "e1"
            /\ req[p].newMax = 3
            /\ resp'.proc = p
            /\ resp'.result = "ok"
            /\ events["e1"].maxCapacity = 10
            /\ events["e1"].availableSpots = 8
            /\ ConfirmedCount("e1") = 2 )
          => /\ events'["e1"].availableSpots = 1
             /\ events'["e1"].maxCapacity = 3
             /\ reservations' = reservations
      ]_vars

\* the shrink has been answered: capacity 3, one spot left, both
\* reservations still CONFIRMED
C13_Witness ==
    /\ resp.op = "updateEvent"
    /\ resp.result = "ok"
    /\ events["e1"].maxCapacity = 3
    /\ events["e1"].availableSpots = 1
    /\ ConfirmedOf(reservations, "e1", "u1") # {}
    /\ ConfirmedOf(reservations, "e1", "u2") # {}

\* C14: no step changes the status of a reservation row from CANCELED to
\* CONFIRMED: a row that is CANCELED is CANCELED after every step that keeps
\* it.
C14_CanceledStaysCanceled ==
    [][\A x \in reservations : \A y \in reservations' :
          (x.status = "CANCELED" /\ y.id = x.id) => y.status = "CANCELED"
      ]_vars

\* a user has reserved again after a cancel: the CANCELED row is still there
\* next to the new CONFIRMED one
C14_Witness ==
    /\ resp.op = "reserve"
    /\ resp.result = "ok"
    /\ \E x \in RowsOf(reservations, resp.eventId, resp.userId) :
          x.status = "CANCELED" /\ x.id < resp.rid
    /\ \E x \in RowsOf(reservations, resp.eventId, resp.userId) :
          x.status = "CONFIRMED" /\ x.id = resp.rid

\* C15: a cancel answers ok only to the owner of the reservation or to an
\* ADMIN; a USER who does not own the reservation is answered NotAuthorized,
\* and neither the reservations nor the events change.
C15_CancelNeedsOwnerOrAdmin ==
    [][resp'.op = "cancel" =>
          /\ resp'.result = "ok"
                => \E x \in reservations :
                      /\ x.id = resp'.rid
                      /\ \/ x.userId = resp'.userId
                         \/ users[resp'.userId].role = "ADMIN"
          /\ ( /\ users[resp'.userId].role = "USER"
               /\ \E x \in reservations :
                     x.id = resp'.rid /\ x.userId # resp'.userId )
                => /\ resp'.result = "NotAuthorized"
                   /\ UNCHANGED <<events, reservations>>
      ]_vars

\* a USER was refused the cancel of another user's CONFIRMED reservation,
\* which still holds its spot
C15_Witness ==
    /\ resp.op = "cancel"
    /\ resp.result = "NotAuthorized"
    /\ users[resp.userId].role = "USER"
    /\ \E x \in reservations :
          /\ x.id = resp.rid
          /\ x.userId # resp.userId
          /\ x.status = "CONFIRMED"
          /\ events[x.eventId].availableSpots = events[x.eventId].maxCapacity - 1

\* C16: a reserve by a USER that finds the event with its date passed is
\* answered EventAlreadyOccurred and changes nothing, whatever the
\* availableSpots of the event and the reservations of the user.
C16_PastEventIsRefused ==
    [][\A p \in Procs :
          LET call == IF InFlight(p)' THEN req'[p] ELSE resp'
          IN  ( /\ ~InFlight(p)
                /\ \/ req'[p].op = "reserve"
                   \/ resp'.proc = p /\ resp'.op = "reserve"
                /\ users[call.userId].role = "USER"
                /\ events[call.eventId].state = "live"
                /\ HasOccurred(events[call.eventId]) )
              => /\ resp'.proc = p
                 /\ resp'.result = "EventAlreadyOccurred"
                 /\ UNCHANGED <<users, events, reservations, nextRid>>
      ]_vars

\* the refused user holds a CONFIRMED reservation for the past event, which
\* has no spot left
C16_Witness ==
    /\ resp.op = "reserve"
    /\ resp.result = "EventAlreadyOccurred"
    /\ events[resp.eventId].availableSpots = 0
    /\ ConfirmedOf(reservations, resp.eventId, resp.userId) # {}

C18_CacheNeverStale ==
    Quiescent =>
        \A e \in LiveEvents :
            /\ cache.event[e].present
                  => cache.event[e].availableSpots = events[e].availableSpots
            /\ (cache.list.present /\ cache.list.rows[e].present)
                  => cache.list.rows[e].availableSpots = events[e].availableSpots

\* C19: a cache delete that throws after the commit of a reserve, cancel,
\* updateEvent or deleteEvent does not change the answer: the operation still
\* answers ok.
C19_CacheFailureIsSwallowed ==
    [][\A p \in Procs :
          ( /\ req[p].op \in Invalidating
            /\ req[p].pc = "write"
            /\ resp'.proc = p
            /\ faults' < faults )
          => resp'.result = "ok"
      ]_vars

\* C20: when the cache get of getEventById or listEvents throws, the handler
\* goes on to read the store instead of answering with an error.
C20_ReadFallsBackToStore ==
    [][\A p \in Procs :
          ( /\ ~InFlight(p)
            /\ faults' < faults
            /\ \/ req'[p].op \in Reading
               \/ resp'.proc = p /\ resp'.op \in Reading )
          => /\ req'[p].op \in Reading
             /\ req'[p].pc = "find"
      ]_vars

\* C21: every event has exactly one of location and onlineLink non-empty at
\* every committed state, whatever createEvent and updateEvent calls ran,
\* two overlapping updateEvent calls on one event included.
C21_ExactlyOneVenue ==
    \A e \in LiveEvents :
        isNonEmptyString(events[e].location) # isNonEmptyString(events[e].onlineLink)

\* C22: a reservation row disappears only in the step that commits the
\* deleteEvent of its event: cancel keeps the row, and deleteUser removes
\* none.
C22_RowsGoOnlyWithTheirEvent ==
    [][\A x \in reservations :
          (\A y \in reservations' : y.id # x.id)
             => /\ resp'.op = "deleteEvent"
                /\ resp'.eventId = x.eventId
      ]_vars

\* C23: a reserve or cancel refused by a business rule (CapacityExhausted,
\* AlreadyReserved, AlreadyCanceled, EventAlreadyOccurred) is answered with a
\* status other than the one that answers a store error.
C23_ConflictIsNotInternalFailure ==
    (resp.op \in {"reserve", "cancel"} /\ resp.result \in Conflicts)
       => HttpStatus(resp.op, resp.result) # HttpStatus(resp.op, "StoreError")

\* C24: a reserve by a principal whose role is not USER is refused and changes
\* nothing, and after any reserve, cancel or role update no CONFIRMED
\* reservation belongs to a user whose role is ADMIN.
C24_OnlyUsersHoldReservations ==
    [][/\ (resp'.op = "reserve" /\ users[resp'.userId].role # "USER")
            => /\ resp'.result = "Forbidden"
               /\ UNCHANGED <<events, reservations>>
       /\ \A x \in reservations' :
             x.status = "CONFIRMED" => users'[x.userId].role # "ADMIN"
      ]_vars

\* C25: a createEvent that passes validation adds one event whose
\* availableSpots equals its positive maxCapacity and that has no reservation,
\* and leaves the other events alone; one that fails validation adds nothing.
C25_CreateStartsFull ==
    [][resp'.op = "createEvent"
         => IF resp'.result = "ok"
              THEN LET e == resp'.eventId
                   IN  /\ events[e].state = "unused"
                       /\ events'[e].state = "live"
                       /\ events'[e].maxCapacity > 0
                       /\ events'[e].availableSpots = events'[e].maxCapacity
                       /\ \A x \in reservations' : x.eventId # e
                       /\ \A f \in EventIds \ {e} : events'[f] = events[f]
              ELSE /\ resp'.result = "ValidationFailed"
                   /\ UNCHANGED <<events, reservations>>
      ]_vars

C25_Witness ==
    /\ resp.op = "createEvent"
    /\ resp.result = "ok"
    /\ events[resp.eventId].availableSpots = MaxCapacity
    /\ reservations # {}

\* C26: a successful deleteEvent(E) removes exactly the reservations of E, and
\* in every interleaving with reserve and cancel no reservation refers to an
\* event that is not live.
C26_DeleteLeavesNoOrphan ==
    [][/\ \A x \in reservations' : events'[x.eventId].state = "live"
       /\ (resp'.op = "deleteEvent" /\ resp'.result = "ok")
            => reservations' = {x \in reservations : x.eventId # resp'.eventId}
      ]_vars

C26_Witness ==
    /\ resp.op = "deleteEvent"
    /\ resp.result = "ok"
    /\ events[resp.eventId].state = "deleted"
    /\ \E p \in Procs : /\ req[p].op = "reserve"
                        /\ req[p].pc = "write"
                        /\ req[p].eventId = resp.eventId

\* C27: a cache entry is written only by getEventById, under the key of its
\* event, and by listEvents without filters, under the list key; the
\* mutations only delete; listEvents with a filter is answered by the store
\* and leaves the cache as it is.
C27_OnlyReadsPopulate ==
    [][/\ \A e \in EventIds :
             (cache'.event[e].present /\ cache'.event[e] # cache.event[e])
                => (resp'.op = "getEventById" /\ resp'.eventId = e)
       /\ (cache'.list.present /\ cache'.list # cache.list)
             => (resp'.op = "listEvents" /\ resp'.filter = "none")
       /\ (resp'.op = "listEvents" /\ resp'.filter # "none")
             => /\ cache' = cache
                /\ resp'.result = "ok" => req[resp'.proc].pc = "find"
      ]_vars

C27_Witness ==
    /\ resp.op = "listEvents"
    /\ resp.filter = "date"
    /\ resp.result = "ok"
    /\ cache.list.present

\* C28: every entry in the cache carries the time to live of 3600 seconds,
\* and once the mutations have stopped every stale entry is dropped: from
\* some point on whatever the cache holds agrees with the store.
C28_StaleEntryIsEvicted ==
    /\ [](/\ \A e \in EventIds :
               cache.event[e].present => cache.event[e].ttl = CacheTtl
          /\ cache.list.present => cache.list.ttl = CacheTtl)
    /\ <>[]CacheAgrees

C28_Witness ==
    /\ Quiescent
    /\ nops = MaxOps
    /\ ~CacheAgrees

\* C29: of two overlapping cancels of one CONFIRMED reservation, the one that
\* writes after the other has committed is answered AlreadyCanceled and
\* leaves availableSpots as it is, so the two add exactly 1.
C29_SecondCancelAddsNothing ==
    [][\A p \in Procs :
          ( /\ req[p].op = "cancel"
            /\ req[p].pc = "write"
            /\ resp'.proc = p
            /\ events[req[p].eventId].state = "live"
            /\ \E x \in reservations : x.id = req[p].rid /\ x.status = "CANCELED" )
             => /\ resp'.result = "AlreadyCanceled"
                /\ events'[req[p].eventId].availableSpots
                      = events[req[p].eventId].availableSpots
      ]_vars

\* C30: with no reserve or cancel in between, an updateEvent that brings
\* maxCapacity back from a smaller value to the original one brings
\* availableSpots back to its original value, maxCapacity minus the CONFIRMED
\* reservations, so the two together never exceed maxCapacity.
C30_ResizeIsReversible ==
    [][( /\ resp'.op = "updateEvent"
         /\ resp'.result = "ok"
         /\ events["e1"].maxCapacity < MaxCapacity
         /\ events'["e1"].maxCapacity = MaxCapacity )
          => /\ events'["e1"].availableSpots = MaxCapacity - ConfirmedCount("e1")
             /\ events'["e1"].availableSpots + ConfirmedCount("e1")
                   <= events'["e1"].maxCapacity
      ]_vars

====
